---- MODULE Spec2Model ----
(***************************************************************************)
(* A model of utils.py: the mutual-information sandwich estimator, the     *)
(* pairwise distance kernels, the similarity wrapper and the closed-form   *)
(* Gaussian divergences.                                                   *)
(*                                                                         *)
(* Numbers.  The code works in real (float64) arithmetic with exp, log and *)
(* sqrt.  The model is exact on the inputs it draws:                       *)
(*   - coordinates (means, sampled points) are integers counted in units   *)
(*     of c = sqrt(2 ln 2), so that exp(-(n*c)^2 / 2) = 2^(-n^2);          *)
(*   - log-variances are integers counted in units of 2 ln 2, so that      *)
(*     exp(logvar/2) = 2^logvar and exp(-logvar/2) = 2^(-logvar);          *)
(*   - a positive real 2^e is a "dyadic" <<1, e>>, zero is <<0, e>>;       *)
(*   - a quotient is a pair <<num, den>> of naturals, den = 0 meaning a    *)
(*     division by zero (inf); log(q) is kept as its argument q, and a     *)
(*     mean of logs as the sequence of the arguments with the divisor.     *)
(* Floating-point rounding is outside the model.                           *)
(***************************************************************************)
EXTENDS Integers, Sequences, FiniteSets, TLC

VARIABLES
  pc,                \* "iter" inside the for loop, "done" after return, "error" after a raise
  dataset,           \* the dataset: a sequence of examples (here 1..N)
  encoder,           \* the name of the encoder passed in
  eval_batch_size,
  num_eval_batches,
  cursor,            \* repeat(): index of the next example of the current pass
  exhausted,         \* repeat(): the upstream has ended
  buffer,            \* shuffle(): the shuffle buffer; buffer[x] counts the copies of example x in it
  batch,             \* batch(): the examples gathered for the next batch
  taken,             \* take(): batches yielded so far
  bound_estimates,   \* the list the loop appends to
  result,            \* the returned pair, once pc = "done"
  recalled,          \* TRUE once the estimator has been called a second time
  call,              \* kernels: the latest call, [fn, ...arguments]
  ret                \* kernels: what that call returned or raised

estimator_vars == <<pc, dataset, encoder, eval_batch_size, num_eval_batches, cursor,
                    exhausted, buffer, batch, taken, bound_estimates, result, recalled>>
kernel_vars == <<call, ret>>
vars == <<estimator_vars, kernel_vars>>

(***************************************************************************)
(* Bounds of the model.                                                    *)
(***************************************************************************)
MaxData == 2       \* examples in the dataset: 1..MaxData
MaxBatch == 2      \* eval_batch_size: 1..MaxBatch
MaxDraws == 4      \* eval_batch_size * num_eval_batches <= MaxDraws
MaxCoord == 1      \* coordinates of the points and means given to the kernels: 0..MaxCoord

(***************************************************************************)
(* Arithmetic helpers.                                                     *)
(***************************************************************************)
Pow2(n) == 2 ^ n

Abs(n) == IF n < 0 THEN -n ELSE n

Max(a, b) == IF a >= b THEN a ELSE b

Min(a, b) == IF a <= b THEN a ELSE b

RECURSIVE SumSeq(_)
SumSeq(s) == IF s = <<>> THEN 0 ELSE Head(s) + SumSeq(Tail(s))

RECURSIVE MaxSeq(_)
MaxSeq(s) == IF Len(s) = 1 THEN s[1] ELSE Max(Head(s), MaxSeq(Tail(s)))

RECURSIVE MinSeq(_)
MinSeq(s) == IF Len(s) = 1 THEN s[1] ELSE Min(Head(s), MinSeq(Tail(s)))

RECURSIVE Gcd(_, _)
Gcd(a, b) == IF b = 0 THEN a ELSE Gcd(b, a % b)

\* A quotient in lowest terms; <<n, 0>> (n > 0) is +inf, <<0, 0>> is nan.
Quot(n, d) ==
  IF d = 0 THEN <<IF n = 0 THEN 0 ELSE 1, 0>>
  ELSE LET g == Gcd(n, d) IN <<n \div g, d \div g>>

(***************************************************************************)
(* Naturals of any size, as little-endian sequences of digits base 1000,    *)
(* used only to compare products of quotients without overflow.            *)
(***************************************************************************)
RECURSIVE BigNorm(_)
BigNorm(s) == IF s # <<>> /\ s[Len(s)] = 0 THEN BigNorm(SubSeq(s, 1, Len(s) - 1)) ELSE s

RECURSIVE BigMulCarry(_, _, _)
BigMulCarry(s, k, carry) ==
  IF s = <<>> THEN (IF carry = 0 THEN <<>>
                    ELSE <<carry % 1000>> \o BigMulCarry(<<>>, k, carry \div 1000))
  ELSE LET v == Head(s) * k + carry
       IN <<v % 1000>> \o BigMulCarry(Tail(s), k, v \div 1000)

BigMul(s, k) == BigNorm(BigMulCarry(s, k, 0))

RECURSIVE BigProd(_)
BigProd(ks) == IF ks = <<>> THEN <<1>> ELSE BigMul(BigProd(Tail(ks)), Head(ks))

RECURSIVE BigLessFrom(_, _, _)
BigLessFrom(a, b, i) ==
  IF i = 0 THEN FALSE
  ELSE IF a[i] # b[i] THEN a[i] < b[i] ELSE BigLessFrom(a, b, i - 1)

BigLeq(a, b) ==
  IF Len(a) # Len(b) THEN Len(a) < Len(b) ELSE ~BigLessFrom(b, a, Len(a))

\* prod(qs[k][1]) / prod(qs[k][2]) <= prod(rs[k][1]) / prod(rs[k][2]), all denominators > 0
ProdLeq(qs, rs) ==
  BigLeq(BigProd([k \in 1..(Len(qs) + Len(rs)) |->
                    IF k <= Len(qs) THEN qs[k][1] ELSE rs[k - Len(qs)][2]]),
         BigProd([k \in 1..(Len(qs) + Len(rs)) |->
                    IF k <= Len(rs) THEN rs[k][1] ELSE qs[k - Len(rs)][2]]))

QuotLeq(q, r) == ProdLeq(<<q>>, <<r>>)

(***************************************************************************)
(* The encoders the model passes in.  encoder(x) is the row [mus | logvars]*)
(* of length 2*d.                                                          *)
(***************************************************************************)
Encoders == {"zero", "centers", "widths", "plane", "origin"}

EncoderRow(name, x) ==
  CASE name = "zero"    -> <<0, 0>>                  \* mu = 0, logvar = 0 for every input
    [] name = "centers" -> <<x % 2, 0>>              \* the mean depends on x
    [] name = "widths"  -> <<0, -(x % 2)>>           \* the log-variance depends on x
    [] name = "plane"   -> <<x % 2, 0, 0, 0>>        \* d = 2
    [] name = "origin"  -> <<0, 0, 0, 0>>            \* d = 2, mu = 0, logvar = 0

\* The draws tf.random.normal may make, per coordinate (standard-normal deviates).
Noise == {0, 2}

(***************************************************************************)
(* compute_batch                                                           *)
(***************************************************************************)
\* The sequence s itself, its elements computed once
Arr(s) == SubSeq(s, 1, Len(s))

\* x * 2^e for a coordinate x (exact on the inputs drawn)
Scale(x, e) == IF e >= 0 THEN x * Pow2(e) ELSE x \div Pow2(-e)

\* A slip: tf.reduce_sum where tf.reduce_mean was meant
ReduceSumRow(row) ==
  LET m == MinSeq(Arr([j \in 1..Len(row) |-> row[j][2]]))
  IN [mant |-> SumSeq(Arr([j \in 1..Len(row) |-> row[j][1] * Pow2(row[j][2] - m)])),
      exp |-> m, div |-> 1]

\* tf.reduce_mean of a row of dyadics: the real mant * 2^exp / div
ReduceMeanRow(row) ==
  LET m == MinSeq(Arr([j \in 1..Len(row) |-> row[j][2]]))
  IN [mant |-> SumSeq(Arr([j \in 1..Len(row) |-> row[j][1] * Pow2(row[j][2] - m)])),
      exp |-> m, div |-> Len(row)]

\* p / mean for a dyadic p and a row mean
DivByMean(p, mean) ==
  LET m == Min(p[2], mean.exp)
  IN Quot(p[1] * Pow2(p[2] - m) * mean.div, mean.mant * Pow2(mean.exp - m))

\* tf.reduce_mean(tf.math.log(qs)): the mean of the logs of the quotients qs
MeanLog(qs) == [logs |-> qs, n |-> Len(qs)]

\* The density matrix p_ui_cond_xj, in units of (2 pi)^(-d/2), before the diagonal is zeroed.
DensityMatrix(enc, data, z) ==
  LET B == Len(data)
      out == Arr([i \in 1..B |-> EncoderRow(enc, data[i])])
      d == Len(out[1]) \div 2
      mus == Arr([i \in 1..B |-> SubSeq(out[i], 1, d)])
      logvars == Arr([i \in 1..B |-> SubSeq(out[i], d + 1, 2 * d)])
      \* stddevs = exp(logvars/2) = 2^logvars[i][k]
      sampled_u_values ==
        Arr([i \in 1..B |-> Arr([k \in 1..d |-> mus[i][k] + Scale(z[i][k], logvars[i][k])])])
      distances_ui_muj(i, j) == Arr([k \in 1..d |-> sampled_u_values[i][k] - mus[j][k]])
      normalized(i, j) ==
        Arr([k \in 1..d |-> Scale(distances_ui_muj(i, j)[k], -logvars[j][k])])
      squares(i, j) == LET nd == normalized(i, j) IN Arr([k \in 1..d |-> nd[k] * nd[k]])
  IN Arr([i \in 1..B |-> Arr([j \in 1..B |->
        <<1, -SumSeq(squares(i, j)) - SumSeq(logvars[j])>>])])

\* A slip of sign: p_ui_cond_xj *= (1. + tf.eye(eval_batch_size))
DoubleDiagonal(p) ==
  Arr([i \in 1..Len(p) |-> Arr([j \in 1..Len(p) |->
     <<p[i][j][1] * (1 + (IF i = j THEN 1 ELSE 0)), p[i][j][2]>>])])

\* p_ui_cond_xj *= (1. - tf.eye(eval_batch_size))
ZeroDiagonal(p) ==
  Arr([i \in 1..Len(p) |-> Arr([j \in 1..Len(p) |->
     <<p[i][j][1] * (1 - (IF i = j THEN 1 ELSE 0)), p[i][j][2]>>])])

\* InfoNCE: the diagonal terms over the means of their rows, log, averaged
InfoNCELower(p) ==
  LET p_ui_cond_xi == Arr([i \in 1..Len(p) |-> p[i][i]])
  IN MeanLog(Arr([i \in 1..Len(p) |-> DivByMean(p_ui_cond_xi[i], ReduceMeanRow(p[i]))]))

\* A slip: the diagonal (the numerator) read after it was zeroed
LooUpperNumeratorZeroed(p) ==
  LET masked == ZeroDiagonal(p)
      p_ui_cond_xi == Arr([i \in 1..Len(p) |-> masked[i][i]])
  IN MeanLog(Arr([i \in 1..Len(p) |-> DivByMean(p_ui_cond_xi[i], ReduceMeanRow(masked[i]))]))

\* "Leave one out": the same, the diagonal zeroed in the denominator only
LooUpper(p) ==
  LET p_ui_cond_xi == Arr([i \in 1..Len(p) |-> p[i][i]])
      masked == ZeroDiagonal(p)
  IN MeanLog(Arr([i \in 1..Len(p) |-> DivByMean(p_ui_cond_xi[i], ReduceMeanRow(masked[i]))]))

\* compute_batch(batch_data): the reshape raises unless the batch holds eval_batch_size rows
compute_batch(enc, size, data, z) ==
  IF Len(data) # size THEN "error"
  ELSE LET p == DensityMatrix(enc, data, z)
       IN <<InfoNCELower(p), LooUpper(p)>>

\* np.mean(np.stack(bound_estimates, 0), 0), per component, for batches of one size
RECURSIVE ConcatLogs(_, _)
ConcatLogs(ests, c) ==
  IF ests = <<>> THEN <<>> ELSE Head(ests)[c].logs \o ConcatLogs(Tail(ests), c)

MeanStack(ests) ==
  [c \in 1..2 |-> [logs |-> ConcatLogs(ests, c),
                   n |-> SumSeq([k \in 1..Len(ests) |-> ests[k][c].n])]]

(***************************************************************************)
(* estimate_mi_sandwich_bounds: the for loop over                          *)
(* dataset.repeat().shuffle(10*B).batch(B).take(K).                        *)
(***************************************************************************)
ShuffleFactor == 10

\* A slip: no repeat(), the dataset is read once
RepeatNever == FALSE

\* repeat() with no count: after the last example of a pass another pass follows
RepeatAgain == TRUE

ShuffleCapacity == eval_batch_size * ShuffleFactor

\* shuffle() has nothing more to give
BufferCount == SumSeq(buffer)

ShuffleEnded == exhausted /\ BufferCount = 0

\* batch() yields a batch: a full one, or the short rest of a stream that ended
BatchReady ==
  IF Len(batch) = eval_batch_size THEN TRUE ELSE ShuffleEnded /\ batch # <<>>

\* take(K) stops the loop: K batches were yielded, or the stream ended
LoopEnded ==
  IF taken = num_eval_batches THEN TRUE ELSE ShuffleEnded /\ batch = <<>>

Configs ==
  {c \in [N : 1..MaxData, B : 1..MaxBatch, K : 1..MaxDraws, enc : Encoders] :
     c.B * c.K <= MaxDraws}

\* A slip: the list outlives the call (a module-level or default-argument list)
EnterKeepingEstimates(c) ==
  /\ pc' = "iter"
  /\ dataset' = [x \in 1..c.N |-> x]
  /\ encoder' = c.enc
  /\ eval_batch_size' = c.B
  /\ num_eval_batches' = c.K
  /\ cursor' = 1
  /\ exhausted' = FALSE
  /\ buffer' = [x \in 1..c.N |-> 0]
  /\ batch' = <<>>
  /\ taken' = 0
  /\ bound_estimates' = bound_estimates
  /\ result' = <<>>

\* The state on entry to estimate_mi_sandwich_bounds (line 69: bound_estimates = [])
Enter(c) ==
  /\ pc' = "iter"
  /\ dataset' = [x \in 1..c.N |-> x]
  /\ encoder' = c.enc
  /\ eval_batch_size' = c.B
  /\ num_eval_batches' = c.K
  /\ cursor' = 1
  /\ exhausted' = FALSE
  /\ buffer' = [x \in 1..c.N |-> 0]
  /\ batch' = <<>>
  /\ taken' = 0
  /\ bound_estimates' = <<>>
  /\ result' = <<>>

InitKernels ==
  /\ call = [fn |-> "none"]
  /\ ret = [kind |-> "none"]

InitEstimator ==
  /\ pc = "iter"
  /\ \E c \in Configs :
       /\ dataset = [x \in 1..c.N |-> x]
       /\ encoder = c.enc
       /\ eval_batch_size = c.B
       /\ num_eval_batches = c.K
       /\ buffer = [x \in 1..c.N |-> 0]
  /\ cursor = 1
  /\ exhausted = FALSE
  /\ batch = <<>>
  /\ taken = 0
  /\ bound_estimates = <<>>
  /\ result = <<>>
  /\ recalled = FALSE

Init == InitEstimator /\ InitKernels

\* shuffle() reads the next example of the repeated dataset into its buffer
FillBuffer ==
  /\ pc = "iter"
  /\ ~LoopEnded
  /\ ~BatchReady
  /\ ~exhausted
  /\ BufferCount < ShuffleCapacity
  /\ buffer' = [buffer EXCEPT ![dataset[cursor]] = @ + 1]
  /\ cursor' = IF cursor = Len(dataset) THEN 1 ELSE cursor + 1
  /\ exhausted' = IF cursor = Len(dataset) THEN ~RepeatAgain ELSE FALSE
  /\ UNCHANGED <<pc, dataset, encoder, eval_batch_size, num_eval_batches, batch, taken,
                 bound_estimates, result, recalled, kernel_vars>>

\* shuffle() hands a random example of its buffer to batch()
ShuffleNext ==
  /\ pc = "iter"
  /\ ~LoopEnded
  /\ ~BatchReady
  /\ IF exhausted THEN BufferCount > 0 ELSE BufferCount = ShuffleCapacity
  /\ \E x \in {y \in DOMAIN buffer : buffer[y] > 0} :
       /\ buffer' = [buffer EXCEPT ![x] = @ - 1]
       /\ batch' = Append(batch, x)
  /\ UNCHANGED <<pc, dataset, encoder, eval_batch_size, num_eval_batches, cursor, exhausted,
                 taken, bound_estimates, result, recalled, kernel_vars>>

\* What tf.random.normal may draw for a batch of n rows: one deviate per row and dimension
NoiseDraws(enc, n) == [1..n -> [1..(Len(EncoderRow(enc, 1)) \div 2) -> Noise]]

\* One pass of the loop body: bound_estimates.append(compute_batch(batch_data))
ComputeBatch ==
  /\ pc = "iter"
  /\ ~LoopEnded
  /\ BatchReady
  /\ \E z \in NoiseDraws(encoder, Len(batch)) :
       LET est == compute_batch(encoder, eval_batch_size, batch, z)
       IN /\ pc' = IF est = "error" THEN "error" ELSE "iter"
          /\ bound_estimates' = IF est = "error" THEN bound_estimates
                                ELSE Append(bound_estimates, est)
  /\ taken' = taken + 1
  /\ batch' = <<>>
  /\ UNCHANGED <<dataset, encoder, eval_batch_size, num_eval_batches, cursor, exhausted,
                 buffer, result, recalled, kernel_vars>>

\* return np.mean(np.stack(bound_estimates, 0), 0); np.stack raises on an empty list
Return ==
  /\ pc = "iter"
  /\ LoopEnded
  /\ pc' = IF bound_estimates = <<>> THEN "error" ELSE "done"
  /\ result' = IF bound_estimates = <<>> THEN <<>> ELSE MeanStack(bound_estimates)
  /\ UNCHANGED <<dataset, encoder, eval_batch_size, num_eval_batches, cursor, exhausted,
                 buffer, batch, taken, bound_estimates, recalled, kernel_vars>>

\* The estimator is called a second time, with the same arguments, after the first call returned
CallAgain ==
  /\ pc = "done"
  /\ ~recalled
  /\ Enter([N |-> Len(dataset), B |-> eval_batch_size, K |-> num_eval_batches, enc |-> encoder])
  /\ recalled' = TRUE
  /\ UNCHANGED kernel_vars

Next == FillBuffer \/ ShuffleNext \/ ComputeBatch \/ Return \/ CallAgain

Spec == Init /\ [][Next]_vars

LoopBodyEnabled == pc = "iter" /\ ~LoopEnded /\ BatchReady

\* Weak fairness of the loop body, WF_vars(ComputeBatch), written out:
\* ComputeBatch is enabled exactly when LoopBodyEnabled holds, and it is the
\* only action that increments taken.
LoopFairness == []<>~LoopBodyEnabled \/ []<><<taken' = taken + 1>>_vars

\* The interpreter keeps running the call: the iterator keeps producing and
\* the for loop keeps consuming.
FairSpec ==
  /\ Spec
  /\ WF_vars(FillBuffer)
  /\ WF_vars(ShuffleNext)
  /\ LoopFairness
  /\ WF_vars(Return)

(***************************************************************************)
(* The pairwise kernels.  A point set is a sequence of rows, each a        *)
(* sequence of d integer coordinates.  A call returns                      *)
(* [kind |-> "return", value |-> ...] or raises:                           *)
(* [kind |-> "raise", error |-> ..., args |-> ...].                        *)
(***************************************************************************)
Raised(error, args) == [kind |-> "raise", error |-> error, args |-> args]

Returned(value) == [kind |-> "return", value |-> value]

Dim(pts) == Len(pts[1])

\* Shape of an elementwise operation on last dimensions d1 and d2 (broadcasting); 0: incompatible
Broadcast(d1, d2) ==
  IF d1 = d2 THEN d1 ELSE IF d1 = 1 THEN d2 ELSE IF d2 = 1 THEN d1 ELSE 0

\* Coordinate k of a row broadcast to a longer last dimension
At(row, k) == IF Len(row) = 1 THEN row[1] ELSE row[k]

\* tf.matmul(pts1, pts2, transpose_b=True)[i][j]; the inner dimensions must agree
Dot(r1, r2) == SumSeq(Arr([k \in 1..Len(r1) |-> r1[k] * r2[k]]))

SqNorm(r) == SumSeq(Arr([k \in 1..Len(r) |-> r[k] * r[k]]))

ShapeError == Raised("ValueError", <<"Dimensions must be equal">>)

\* A slip: the cross term of the expansion is not doubled
pairwise_l2_distance_cross_once(pts1, pts2) ==
  IF Dim(pts1) # Dim(pts2) THEN ShapeError
  ELSE Returned(Arr([i \in 1..Len(pts1) |-> Arr([j \in 1..Len(pts2) |->
         Max(SqNorm(pts1[i]) + SqNorm(pts2[j]) - Dot(pts1[i], pts2[j]), 0)])]))

pairwise_l2_distance(pts1, pts2) ==
  IF Dim(pts1) # Dim(pts2) THEN ShapeError
  ELSE Returned(Arr([i \in 1..Len(pts1) |-> Arr([j \in 1..Len(pts2) |->
         Max(SqNorm(pts1[i]) + SqNorm(pts2[j]) - 2 * Dot(pts1[i], pts2[j]), 0)])]))

pairwise_l1_distance(pts1, pts2) ==
  LET d == Broadcast(Dim(pts1), Dim(pts2))
  IN IF d = 0 THEN ShapeError
     ELSE Returned(Arr([i \in 1..Len(pts1) |-> Arr([j \in 1..Len(pts2) |->
            SumSeq(Arr([k \in 1..d |-> Abs(At(pts1[i], k) - At(pts2[j], k))]))])]))

pairwise_linf_distance(pts1, pts2) ==
  LET d == Broadcast(Dim(pts1), Dim(pts2))
  IN IF d = 0 THEN ShapeError
     ELSE Returned(Arr([i \in 1..Len(pts1) |-> Arr([j \in 1..Len(pts2) |->
            MaxSeq(Arr([k \in 1..d |-> Abs(At(pts1[i], k) - At(pts2[j], k))]))])]))

(***************************************************************************)
(* get_scaled_similarity.  An entry of the result is the real              *)
(*   times * real / over,                                                  *)
(* where real is (radicand + eps * 1e-9) under a square root or not, or    *)
(* a cosine dot / sqrt(norm1sq * norm2sq) (nan when a norm is 0).  A       *)
(* division by over = 0 raises nothing: it gives inf or nan entries.       *)
(***************************************************************************)
eps == 1

Plain(x) == [radicand |-> x, eps |-> 0, sqrt |-> FALSE]

Sqrt(x, e) == [radicand |-> x, eps |-> e, sqrt |-> TRUE]

Cosine(r1, r2) == [dot |-> Dot(r1, r2), norm1sq |-> SqNorm(r1), norm2sq |-> SqNorm(r2)]

MapMatrix(m, F(_)) == Arr([i \in 1..Len(m) |-> Arr([j \in 1..Len(m[i]) |-> F(m[i][j])])])

Negated(res, F(_)) ==
  IF res.kind = "raise" THEN res
  ELSE Returned(MapMatrix(res.value, LAMBDA x : [times |-> -1, real |-> F(x)]))

SqrtEps(x) == Sqrt(x, eps)

\* A slip: the message does not carry the offending string
UnsupportedKindUnnamed(similarity_type) ==
  Raised("ValueError", <<"Similarity type not implemented: ">>)

\* raise ValueError('Similarity type not implemented: ', similarity_type)
UnsupportedKind(similarity_type) ==
  Raised("ValueError", <<"Similarity type not implemented: ", similarity_type>>)

\* Everything before "similarity /= temperature"
Similarity(embeddings1, embeddings2, similarity_type) ==
  CASE similarity_type = "l2sq" ->
         Negated(pairwise_l2_distance(embeddings1, embeddings2), Plain)
    [] similarity_type = "l2" ->
         Negated(pairwise_l2_distance(embeddings1, embeddings2), SqrtEps)
    [] similarity_type = "l1" ->
         Negated(pairwise_l1_distance(embeddings1, embeddings2), Plain)
    [] similarity_type = "linf" ->
         Negated(pairwise_linf_distance(embeddings1, embeddings2), Plain)
    [] similarity_type = "cosine" ->
         IF Dim(embeddings1) # Dim(embeddings2) THEN ShapeError
         ELSE Returned(Arr([i \in 1..Len(embeddings1) |-> Arr([j \in 1..Len(embeddings2) |->
                [times |-> 1, real |-> Cosine(embeddings1[i], embeddings2[j])]])]))
    [] OTHER -> UnsupportedKind(similarity_type)

get_scaled_similarity(embeddings1, embeddings2, similarity_type, temperature) ==
  LET similarity == Similarity(embeddings1, embeddings2, similarity_type)
  IN IF similarity.kind = "raise" THEN similarity
     ELSE Returned(MapMatrix(similarity.value,
                           LAMBDA x : [times |-> x.times, real |-> x.real, over |-> temperature]))

(***************************************************************************)
(* The Gaussian divergences.  A Gaussian batch is [mus, logvars], two      *)
(* matrices of one shape.  Means are counted in units of sqrt(2 ln 2) and  *)
(* log-variances in units of 2 ln 2 (as for the estimator), so that        *)
(* exp(logvar) = 4^logvar is rational and a squared difference of means is *)
(* an integer multiple of 2 ln 2.  A rational is <<num, den>>, den > 0, in *)
(* lowest terms.                                                           *)
(***************************************************************************)
Rat(n, d) == LET g == Gcd(Abs(n), d) IN <<n \div g, d \div g>>

RatAdd(a, b) == Rat(a[1] * b[2] + b[1] * a[2], a[2] * b[2])

RatSub(a, b) == Rat(a[1] * b[2] - b[1] * a[2], a[2] * b[2])

RatMul(a, b) == Rat(a[1] * b[1], a[2] * b[2])

\* 1 / a, for a > 0
RatInv(a) == <<a[2], a[1]>>

RECURSIVE RatSum(_)
RatSum(s) == IF s = <<>> THEN <<0, 1>> ELSE RatAdd(Head(s), RatSum(Tail(s)))

RECURSIVE RatProd(_)
RatProd(s) == IF s = <<>> THEN <<1, 1>> ELSE RatMul(Head(s), RatProd(Tail(s)))

\* np.exp(logvar)
ExpLogvar(l) == IF l >= 0 THEN <<4 ^ l, 1>> ELSE <<1, 4 ^ (-l)>>

\* The result on an assert that fails
AssertionError == Raised("AssertionError", <<>>)

\* One entry of bhattacharyya_dist_mat: the real ln2 * ln(2) + 0.5 * log(halflog)
BhattacharyyaEntry(mu1, lv1, mu2, lv2) ==
  LET d == Len(mu1)
      difference_mus == Arr([k \in 1..d |-> mu1[k] - mu2[k]])
      sigma_diag == Arr([k \in 1..d |->
                      RatMul(<<1, 2>>, RatAdd(ExpLogvar(lv1[k]), ExpLogvar(lv2[k])))])
      determinant_sigma == RatProd(sigma_diag)
      determinant_sigma1 == ExpLogvar(SumSeq(lv1))
      determinant_sigma2 == ExpLogvar(SumSeq(lv2))
      \* 0.125 * diff^T sigma^-1 diff, a squared difference being 2 ln 2 times an integer
      term1 == RatMul(<<1, 4>>, RatSum(Arr([k \in 1..d |->
                 RatMul(<<difference_mus[k] * difference_mus[k], 1>>, RatInv(sigma_diag[k]))])))
      \* sqrt(4^a * 4^b) = 2^(a + b)
      root == LET e == SumSeq(lv1) + SumSeq(lv2)
              IN IF e >= 0 THEN <<2 ^ e, 1>> ELSE <<1, 2 ^ (-e)>>
  IN [ln2 |-> term1, halflog |-> RatMul(determinant_sigma, RatInv(root))]

bhattacharyya_dist_mat(mus1, logvars1, mus2, logvars2) ==
  IF Dim(mus2) # Dim(mus1) THEN AssertionError
  ELSE Returned(Arr([i \in 1..Len(mus1) |-> Arr([j \in 1..Len(mus2) |->
         BhattacharyyaEntry(mus1[i], logvars1[i], mus2[j], logvars2[j])])]))

\* A slip: sigma2_inv_diag = np.exp(logvars2), the sign of the exponent lost
KLEntryInverseLost(mu1, lv1, mu2, lv2) ==
  LET embedding_dimension == Len(mu1)
      difference_mus == Arr([k \in 1..embedding_dimension |-> mu2[k] - mu1[k]])
      sigma1_diag == Arr([k \in 1..embedding_dimension |-> ExpLogvar(lv1[k])])
      sigma2_diag == Arr([k \in 1..embedding_dimension |-> ExpLogvar(lv2[k])])
      sigma2_inv_diag == Arr([k \in 1..embedding_dimension |-> ExpLogvar(lv2[k])])
      term1 == RatSum(Arr([k \in 1..embedding_dimension |->
                 RatMul(sigma2_inv_diag[k], sigma1_diag[k])]))
      term2 == RatSum(Arr([k \in 1..embedding_dimension |->
                 RatMul(<<difference_mus[k] * difference_mus[k], 1>>, RatInv(sigma2_diag[k]))]))
      log_determinant_sigma1 == SumSeq(lv1)
      log_determinant_sigma2 == SumSeq(lv2)
      rat == RatAdd(<<-embedding_dimension, 1>>, term1)
      ln2 == RatMul(<<2, 1>>,
                    RatAdd(<<log_determinant_sigma2 - log_determinant_sigma1, 1>>, term2))
  IN [rat |-> RatMul(<<1, 2>>, rat), ln2 |-> RatMul(<<1, 2>>, ln2)]

\* One entry of kl_divergence_mat: the real rat + ln2 * ln(2)
KLEntry(mu1, lv1, mu2, lv2) ==
  LET embedding_dimension == Len(mu1)
      difference_mus == Arr([k \in 1..embedding_dimension |-> mu2[k] - mu1[k]])
      sigma1_diag == Arr([k \in 1..embedding_dimension |-> ExpLogvar(lv1[k])])
      sigma2_diag == Arr([k \in 1..embedding_dimension |-> ExpLogvar(lv2[k])])
      sigma2_inv_diag == Arr([k \in 1..embedding_dimension |-> ExpLogvar(-lv2[k])])
      term1 == RatSum(Arr([k \in 1..embedding_dimension |->
                 RatMul(sigma2_inv_diag[k], sigma1_diag[k])]))
      \* diff^T sigma2^-1 diff, in units of 2 ln 2
      term2 == RatSum(Arr([k \in 1..embedding_dimension |->
                 RatMul(<<difference_mus[k] * difference_mus[k], 1>>, RatInv(sigma2_diag[k]))]))
      log_determinant_sigma1 == SumSeq(lv1)   \* in units of 2 ln 2
      log_determinant_sigma2 == SumSeq(lv2)
      \* kl_mat = log_det2 - log_det1 - d; kl_mat += term1; kl_mat += term2
      rat == RatAdd(<<-embedding_dimension, 1>>, term1)
      ln2 == RatMul(<<2, 1>>,
                    RatAdd(<<log_determinant_sigma2 - log_determinant_sigma1, 1>>, term2))
  IN \* kl_mat *= 0.5
     [rat |-> RatMul(<<1, 2>>, rat), ln2 |-> RatMul(<<1, 2>>, ln2)]

kl_divergence_mat(mus1, logvars1, mus2, logvars2) ==
  IF Dim(mus2) # Dim(mus1) THEN AssertionError
  ELSE Returned(Arr([i \in 1..Len(mus1) |-> Arr([j \in 1..Len(mus2) |->
         KLEntry(mus1[i], logvars1[i], mus2[j], logvars2[j])])]))

(***************************************************************************)
(* Calls of the kernels, on the inputs the model draws.                    *)
(***************************************************************************)
Coords == 0..MaxCoord

Matrices(shapes, values) == UNION {[1..sh[1] -> [1..sh[2] -> values]] : sh \in shapes}

\* <<rows, d>> of the point sets
PointShapes == {<<1, 1>>, <<2, 1>>, <<1, 2>>, <<2, 2>>, <<1, 3>>}

PointSets == Matrices(PointShapes, Coords)

\* The embeddings given to get_scaled_similarity
Embeddings1 == Matrices({<<1, 1>>, <<2, 1>>, <<1, 2>>, <<2, 2>>}, Coords)

Embeddings2 == Matrices({<<1, 1>>, <<2, 1>>, <<1, 2>>}, Coords)

SupportedKinds == {"l2sq", "l2", "l1", "linf", "cosine"}

Kinds == SupportedKinds \cup {"L2", "dot"}

Temperatures == {-1, 0, 1, 2}

LogVars == {-1, 0, 1}

GaussShapes == {<<1, 1>>, <<2, 1>>, <<1, 2>>}

GaussBatches ==
  UNION {[mus : Matrices({sh}, Coords), logvars : Matrices({sh}, LogVars)] : sh \in GaussShapes}

CallL2 ==
  /\ call.fn = "none"
  /\ \E pts1 \in PointSets, pts2 \in PointSets :
       /\ call' = [fn |-> "pairwise_l2_distance", pts1 |-> pts1, pts2 |-> pts2]
       /\ ret' = pairwise_l2_distance(pts1, pts2)
  /\ UNCHANGED estimator_vars

CallL1 ==
  /\ call.fn = "none"
  /\ \E pts1 \in PointSets, pts2 \in PointSets :
       /\ call' = [fn |-> "pairwise_l1_distance", pts1 |-> pts1, pts2 |-> pts2]
       /\ ret' = pairwise_l1_distance(pts1, pts2)
  /\ UNCHANGED estimator_vars

CallLinf ==
  /\ call.fn = "none"
  /\ \E pts1 \in PointSets, pts2 \in PointSets :
       /\ call' = [fn |-> "pairwise_linf_distance", pts1 |-> pts1, pts2 |-> pts2]
       /\ ret' = pairwise_linf_distance(pts1, pts2)
  /\ UNCHANGED estimator_vars

CallSimilarity ==
  /\ call.fn = "none"
  /\ \E e1 \in Embeddings1, e2 \in Embeddings2, kind \in Kinds, t \in Temperatures :
       /\ call' = [fn |-> "get_scaled_similarity", embeddings1 |-> e1, embeddings2 |-> e2,
                   similarity_type |-> kind, temperature |-> t]
       /\ ret' = get_scaled_similarity(e1, e2, kind, t)
  /\ UNCHANGED estimator_vars

CallBhattacharyya ==
  /\ call.fn = "none"
  /\ \E g1 \in GaussBatches, g2 \in GaussBatches :
       /\ call' = [fn |-> "bhattacharyya_dist_mat", mus1 |-> g1.mus, logvars1 |-> g1.logvars,
                   mus2 |-> g2.mus, logvars2 |-> g2.logvars]
       /\ ret' = bhattacharyya_dist_mat(g1.mus, g1.logvars, g2.mus, g2.logvars)
  /\ UNCHANGED estimator_vars

CallKL ==
  /\ call.fn = "none"
  /\ \E g1 \in GaussBatches, g2 \in GaussBatches :
       /\ call' = [fn |-> "kl_divergence_mat", mus1 |-> g1.mus, logvars1 |-> g1.logvars,
                   mus2 |-> g2.mus, logvars2 |-> g2.logvars]
       /\ ret' = kl_divergence_mat(g1.mus, g1.logvars, g2.mus, g2.logvars)
  /\ UNCHANGED estimator_vars

\* The caller takes the result; nothing of the call is kept
Consume ==
  /\ call.fn # "none"
  /\ call' = [fn |-> "none"]
  /\ ret' = [kind |-> "none"]
  /\ UNCHANGED estimator_vars

NextKernels ==
  CallL2 \/ CallL1 \/ CallLinf \/ CallSimilarity \/ CallBhattacharyya \/ CallKL \/ Consume

\* The kernels are called with the estimator idle, before its first step.
InitIdle ==
  /\ Init
  /\ Len(dataset) = 1
  /\ eval_batch_size = 1
  /\ num_eval_batches = 1
  /\ encoder = "zero"

SpecKernels == InitIdle /\ [][NextKernels]_vars

(***************************************************************************)
(* Properties of the kernels (checked under SpecKernels).                  *)
(***************************************************************************)
IsSimilarityCall == call.fn = "get_scaled_similarity"

KernelFns == {"pairwise_l2_distance", "pairwise_l1_distance", "pairwise_linf_distance"}

GaussFns == {"bhattacharyya_dist_mat", "kl_divergence_mat"}

\* The embedding dimensions of the two inputs of the latest kernel call
CallDims ==
  IF call.fn \in KernelFns THEN <<Dim(call.pts1), Dim(call.pts2)>>
  ELSE IF call.fn \in GaussFns THEN <<Dim(call.mus1), Dim(call.mus2)>>
  ELSE IF IsSimilarityCall THEN <<Dim(call.embeddings1), Dim(call.embeddings2)>>
  ELSE <<0, 0>>

NamesUnsupportedKind(r, kind) ==
  /\ r.kind = "raise"
  /\ r.error = "ValueError"
  /\ r.args[1] = "Similarity type not implemented: "
  /\ \E k \in DOMAIN r.args : r.args[k] = kind

\* C4: get_scaled_similarity with a kind outside {l2sq, l2, l1, linf, cosine} raises the
\* ValueError that names the offending string and returns no matrix; with one of the
\* five kinds it does not raise that error.
C4_UnsupportedKindRaises ==
  IsSimilarityCall =>
    IF call.similarity_type \in SupportedKinds
    THEN ~(ret.kind = "raise" /\ ret.args # <<>>
           /\ ret.args[1] = "Similarity type not implemented: ")
    ELSE NamesUnsupportedKind(ret, call.similarity_type)

C4_Witness ==
  /\ IsSimilarityCall
  /\ call.similarity_type = "dot"
  /\ ret.kind = "raise"
  /\ Len(call.embeddings1) = 2

\* C5: get_scaled_similarity with temperature <= 0 and a supported kind raises an
\* error and never returns a similarity matrix.
C5_NonPositiveTemperatureRaises ==
  (IsSimilarityCall /\ call.temperature <= 0 /\ call.similarity_type \in SupportedKinds)
    => ret.kind = "raise"

\* C6: every pairwise kernel called with inputs whose embedding dimensions differ
\* raises, also when one of the two dimensions is 1; none returns a matrix.
C6_DimensionMismatchRaises ==
  (call.fn \in KernelFns \cup GaussFns /\ CallDims[1] # CallDims[2])
    => ret.kind = "raise"

\* The distances between two rows of one length, from their definitions
DistL2Sq(a, b) == SumSeq(Arr([k \in 1..Len(a) |-> (a[k] - b[k]) * (a[k] - b[k])]))

DistL1(a, b) == SumSeq(Arr([k \in 1..Len(a) |-> Abs(a[k] - b[k])]))

DistLinf(a, b) == MaxSeq(Arr([k \in 1..Len(a) |-> Abs(a[k] - b[k])]))

\* The distance the kind names, as a real: for l2 the square root of ||a - b||^2
KindDistance(kind, a, b) ==
  CASE kind = "l2sq" -> Plain(DistL2Sq(a, b))
    [] kind = "l2"   -> Sqrt(DistL2Sq(a, b), 0)
    [] kind = "l1"   -> Plain(DistL1(a, b))
    [] kind = "linf" -> Plain(DistLinf(a, b))

RealIsZero(r) == r.radicand = 0 /\ r.eps = 0

\* times * real / over is at most 0, for a real that is a distance
EntryNonPositive(e) == e.times = -1 /\ e.over > 0 /\ e.real.radicand >= 0

EntryIsZero(e) == e.over # 0 /\ RealIsZero(e.real)

\* A similarity call on point sets of one dimension with a positive temperature
DistanceCall(kinds) ==
  /\ IsSimilarityCall
  /\ call.similarity_type \in kinds
  /\ call.temperature > 0
  /\ CallDims[1] = CallDims[2]

\* Every entry is -distance / temperature, at most 0, and 0 exactly at distance 0
NegatedScaledDistance ==
  /\ ret.kind = "return"
  /\ \A i \in 1..Len(call.embeddings1), j \in 1..Len(call.embeddings2) :
       LET dist == KindDistance(call.similarity_type, call.embeddings1[i], call.embeddings2[j])
       IN /\ ret.value[i][j] = [times |-> -1, real |-> dist, over |-> call.temperature]
          /\ EntryNonPositive(ret.value[i][j])
          /\ EntryIsZero(ret.value[i][j]) <=> (DistL2Sq(call.embeddings1[i], call.embeddings2[j]) = 0)

\* C7, as claimed: for every kind in {l2sq, l2, l1, linf} and temperature t > 0 each entry
\* is the negative of the kind's distance divided by t, and is 0 exactly at distance 0.
C7_NegatedScaledDistanceAllKinds ==
  DistanceCall({"l2sq", "l2", "l1", "linf"}) => NegatedScaledDistance

\* C7, amended: that holds for l2sq, l1 and linf; for l2 each entry is
\* -sqrt(||a - b||^2 + 1e-9) / t, which is below 0 also at distance 0.
C7_NegatedScaledDistance ==
  /\ DistanceCall({"l2sq", "l1", "linf"}) => NegatedScaledDistance
  /\ DistanceCall({"l2"}) =>
       /\ ret.kind = "return"
       /\ \A i \in 1..Len(call.embeddings1), j \in 1..Len(call.embeddings2) :
            /\ ret.value[i][j] =
                 [times |-> -1,
                  real |-> Sqrt(DistL2Sq(call.embeddings1[i], call.embeddings2[j]), eps),
                  over |-> call.temperature]
            /\ EntryNonPositive(ret.value[i][j])
            /\ ~EntryIsZero(ret.value[i][j])

C7_Witness ==
  /\ DistanceCall({"l2sq"})
  /\ call.temperature = 2
  /\ Len(call.embeddings1) = 2
  /\ CallDims[1] = 2
  /\ EntryIsZero(ret.value[1][1])
  /\ ~EntryIsZero(ret.value[2][1])

KLZero == [rat |-> <<0, 1>>, ln2 |-> <<0, 1>>]

IsSelfKL ==
  /\ call.fn = "kl_divergence_mat"
  /\ call.mus1 = call.mus2
  /\ call.logvars1 = call.logvars2

\* C8: kl_divergence_mat(mus, logvars, mus, logvars) is 0 at every entry (i, i),
\* whatever the means and log-variances are.
C8_SelfKLIsZero ==
  IsSelfKL =>
    /\ ret.kind = "return"
    /\ \A i \in 1..Len(call.mus1) : ret.value[i][i] = KLZero

C8_Witness ==
  /\ IsSelfKL
  /\ Len(call.mus1) = 2
  /\ call.logvars1[1][1] = 1
  /\ call.logvars1[2][1] = -1
  /\ call.mus1[1][1] # call.mus1[2][1]
  /\ ret.value[1][2] # KLZero

(***************************************************************************)
(* Properties of the estimator (checked under Spec, C1 under FairSpec).    *)
(***************************************************************************)
Last(s) == s[Len(s)]

\* A step that appends compute_batch's result to bound_estimates
AppendsEstimate == pc = "iter" /\ Len(bound_estimates') = Len(bound_estimates) + 1

C1_Counts ==
  /\ pc # "error"
  /\ taken <= num_eval_batches
  /\ Len(bound_estimates) = taken
  /\ \A k \in 1..Len(bound_estimates) : bound_estimates[k][1].n = eval_batch_size
  /\ pc = "done" => taken = num_eval_batches

\* C1: for a non-empty dataset the loop ends after exactly num_eval_batches batches, and
\* every batch handed to compute_batch holds exactly eval_batch_size examples, also when
\* num_eval_batches * eval_batch_size exceeds the size of the dataset.
C1_ExactBatches ==
  /\ []C1_Counts
  /\ [][taken' # taken /\ pc = "iter" => Len(batch) = eval_batch_size]_vars
  /\ (pc = "iter") ~> (pc = "done")

C1_Witness ==
  /\ pc = "done"
  /\ eval_batch_size = 2
  /\ num_eval_batches = 2
  /\ Len(dataset) = 1
  /\ Len(bound_estimates) = 2

\* sum of p[i][j] over the columns js, over 2^m
RECURSIVE ColumnSum(_, _, _, _)
ColumnSum(p, i, js, m) ==
  IF js = {} THEN 0
  ELSE LET j == CHOOSE x \in js : TRUE
       IN Pow2(p[i][j][2] - m) + ColumnSum(p, i, js \ {j}, m)

\* p[i][i] / ((sum over the columns js of p[i][j]) / B), for a matrix of positive entries
RatioOver(p, i, js) ==
  LET m == MinSeq(Arr([j \in 1..Len(p) |-> p[i][j][2]]))
  IN Quot(Len(p) * Pow2(p[i][i][2] - m), ColumnSum(p, i, js, m))

\* C2: in each batch the lower bound is the mean over rows i of
\* log(p(u_i|x_i) / mean_j p(u_i|x_j)), the mean over all B columns; the upper bound is
\* the same with the diagonal term left out of the sum over j (which is still divided
\* by B), the numerator being the diagonal entry itself.
C2_BatchBounds ==
  [][AppendsEstimate =>
       \E z \in NoiseDraws(encoder, Len(batch)) :
         LET p == DensityMatrix(encoder, batch, z)
             B == Len(batch)
         IN Last(bound_estimates') =
              <<[logs |-> [i \in 1..B |-> RatioOver(p, i, 1..B)], n |-> B],
                [logs |-> [i \in 1..B |-> RatioOver(p, i, (1..B) \ {i})], n |-> B]>>]_vars

C2_Witness ==
  /\ encoder = "widths"
  /\ eval_batch_size = 2
  /\ bound_estimates # <<>>
  /\ bound_estimates[1][1].logs[1] # <<1, 1>>
  /\ bound_estimates[1][1].logs[1] # bound_estimates[1][1].logs[2]
  /\ bound_estimates[1][2].logs[1][2] > 1

IsZeroEncoder(enc) == \A x \in 1..MaxData : \A k \in DOMAIN EncoderRow(enc, x) : EncoderRow(enc, x)[k] = 0

\* q < r for two quotients with positive denominators
QuotLess(q, r) == ~QuotLeq(r, q)

Permuted(s, perm) == [k \in 1..Len(s) |-> s[perm[k]]]

CountIn(s, q) == Cardinality({k \in DOMAIN s : s[k] = q})

\* Two means of logs that are one real: the same logs, in any order, and one divisor
SameMean(a, b) ==
  /\ a.n = b.n
  /\ Len(a.logs) = Len(b.logs)
  /\ \A k \in DOMAIN a.logs : CountIn(a.logs, a.logs[k]) = CountIn(b.logs, a.logs[k])

C10_LowerBelowUpper ==
  eval_batch_size >= 2 =>
    /\ \A k \in 1..Len(bound_estimates) : \A i \in 1..eval_batch_size :
         /\ bound_estimates[k][2].logs[i][2] > 0
         /\ QuotLeq(bound_estimates[k][1].logs[i], bound_estimates[k][2].logs[i])
         /\ QuotLeq(bound_estimates[k][1].logs[i], <<eval_batch_size, 1>>)
    /\ pc = "done" =>
         /\ result[1].n = result[2].n
         /\ ProdLeq(result[1].logs, result[2].logs)

C10_Witness ==
  /\ pc = "done"
  /\ encoder = "centers"
  /\ eval_batch_size = 2
  /\ num_eval_batches = 2
  /\ QuotLess(result[1].logs[1], result[2].logs[1])
  /\ result[1].logs[1] # <<1, 1>>

====
